---------------------------- MODULE Spec2Model ----------------------------
(***************************************************************************)
(* Request gatekeeping layer of the todo backend: credential issuance,     *)
(* rotating refresh tokens, logout, the request authenticator and the      *)
(* refresh-token ledger.  Every handler is split at the awaits that touch  *)
(* shared state (the user table, the ledger, the clock), so that           *)
(* concurrent requests interleave exactly where the event loop lets them.  *)
(***************************************************************************)
EXTENDS Integers, FiniteSets, Sequences, TLC

(***************************************************************************)
(* Bounds of the exploration.                                              *)
(***************************************************************************)
MaxTicks == 1
MaxCalls == 2
\* requests handled by the rate limiter, and steps of its clock
MaxHandled == 12
MaxAdvances == 1
\* operations started by the client
MaxOps == 5

(***************************************************************************)
(* Program constants, in seconds.                                          *)
(***************************************************************************)
ACCESS_TOKEN_EXPIRY == 900
REFRESH_TOKEN_EXPIRY == 604800

\* two request slots: any two handlers may be in flight at once
Slots == {1, 2}

\* an idle period between requests, long enough for every token and every
\* ledger record issued so far to expire
Deltas == {REFRESH_TOKEN_EXPIRY + 1}

\* null of a nullable DateTime column
NoDate == -1

(***************************************************************************)
(* Request inputs.                                                         *)
(***************************************************************************)
RawEmails == {"demo@example.com", " Demo@Example.com ", "new@example.com"}
Passwords == {"Demo1234!", "short"}

\* String.prototype.trim on the inputs above
Trim(e) == IF e = " Demo@Example.com " THEN "Demo@Example.com" ELSE e

\* String.prototype.toLowerCase on the inputs above
ToLowerCase(e) == IF e = "Demo@Example.com" THEN "demo@example.com" ELSE e

\* /^[^\s@]+@[^\s@]+\.[^\s@]+$/ on the inputs above
isValidEmail(e) == e \in {"demo@example.com", "Demo@Example.com", "new@example.com"}

\* length and character classes of the passwords above
PwLength(p) == CASE p = "Demo1234!" -> 9 [] p = "short" -> 5 [] OTHER -> 0
PwHasUpper(p) == p = "Demo1234!"
PwHasLower(p) == p \in {"Demo1234!", "short"}
PwHasDigit(p) == p = "Demo1234!"

isValidPassword(p) ==
    IF PwLength(p) < 8 THEN "PASSWORD_TOO_SHORT"
    ELSE IF PwLength(p) > 100 THEN "PASSWORD_TOO_LONG"
    ELSE IF ~PwHasUpper(p) THEN "PASSWORD_NEEDS_UPPERCASE"
    ELSE IF ~PwHasLower(p) THEN "PASSWORD_NEEDS_LOWERCASE"
    ELSE IF ~PwHasDigit(p) THEN "PASSWORD_NEEDS_NUMBER"
    ELSE "valid"

\* bcrypt: the hash determines which password compares equal to it
hashPassword(p) == [alg |-> "bcrypt", of |-> p]
verifyPassword(p, h) == h = hashPassword(p)

(***************************************************************************)
(* Token codec.  A compact HS256 token is a deterministic function of its  *)
(* payload {userId, email, type, iat, exp, sub} and the secret: two tokens *)
(* signed for the same user with the same type in the same clock second    *)
(* are the same string.  exp is iat plus the expiry of the type.           *)
(***************************************************************************)
NoToken == [sub |-> 0, type |-> "none", iat |-> 0, sig |-> "none"]

generateAccessToken(uid, t) == [sub |-> uid, type |-> "access", iat |-> t, sig |-> "good"]

generateRefreshToken(uid, t) == [sub |-> uid, type |-> "refresh", iat |-> t, sig |-> "good"]

TokenExp(tok) ==
    tok.iat + (IF tok.type = "access" THEN ACCESS_TOKEN_EXPIRY ELSE REFRESH_TOKEN_EXPIRY)

\* jwtVerify: the signature must verify and exp must lie in the future;
\* TRUE stands for the decoded payload, FALSE for null
verifyToken(tok, t) == tok.sig = "good" /\ TokenExp(tok) > t

\* a token whose signature does not verify
Forge(tok) == [tok EXCEPT !.sig = "bad"]

\* new Date() + 7 days
getRefreshTokenExpiry(t) == t + REFRESH_TOKEN_EXPIRY

(***************************************************************************)
(* State.                                                                  *)
(***************************************************************************)
VARIABLES
    now,        \* the wall clock, in seconds
    ticks,      \* how often the clock has advanced
    users,      \* the user table: records [id, email, password, lastLoginAt]
    nextId,     \* the next fresh user id
    ledger,     \* the refreshToken table: records [token, userId, expiresAt, revokedAt]
    call,       \* the request in flight in each slot
    started,    \* how many requests have been started
    issued,     \* tokens that reached a client in a success response
    rotations   \* history: [old, new] for every refresh answered with a new pair

authVars == <<now, ticks, users, nextId, ledger, call, started, issued, rotations>>

\* The state of the rate limiter (server/middleware/rateLimit.ts).  The
\* limiter runs before the handlers above and shares no state with them.
VARIABLES
    msNow,           \* Date.now(), in milliseconds
    rateLimitStore,  \* Map key -> [count, windowStart, violations, lastViolation]
    blacklistStore,  \* Map ip -> [blockedUntil, reason]
    lastCleanup,     \* time of the last pruning pass
    resp,            \* what the limiter answered to the last request
    sleeping,        \* admitted requests suspended in the progressive delay
    handled,         \* how many requests the limiter has handled
    advances,        \* how often the millisecond clock has advanced
    tally            \* history: per key, the requests counted since a window began

limiterVars == <<msNow, rateLimitStore, blacklistStore, lastCleanup, resp, sleeping,
                 handled, advances, tally>>

\* The state of the session in the browser (composable useAuth).
VARIABLES
    client,          \* the refs and module variables of useAuth
    localStorage,    \* the items auth_access_token, auth_refresh_token, auth_user
    inflight,        \* requests of the client that await their reply
    ops,             \* how many operations the client has started
    loggedOut        \* history: a logout has completed and no login or register since

clientVars == <<client, localStorage, inflight, ops, loggedOut>>

vars == <<authVars, limiterVars, clientVars>>

(***************************************************************************)
(* The rate limiter: configuration and pure helpers.  Times are in         *)
(* milliseconds.  A path is the sequence of its segments, and startsWith   *)
(* compares whole segments.                                                *)
(***************************************************************************)
CONFIG ==
    [limits |-> [read |-> 100, write |-> 30, delete |-> 10],
     endpointLimits |->
        << [endpoint |-> <<"api", "tags", "merge">>, limit |-> 5, window |-> 60000],
           [endpoint |-> <<"api", "categories">>, limit |-> 20, window |-> 60000],
           [endpoint |-> <<"api", "v1", "tags", "merge">>, limit |-> 5, window |-> 60000],
           [endpoint |-> <<"api", "v1", "categories">>, limit |-> 20, window |-> 60000] >>,
     windowMs |-> 60000,
     blacklistThreshold |-> 5,
     blacklistDuration |-> 300000,
     cleanupInterval |-> 60000,
     maxEntries |-> 10000,
     progressiveDelayMs |-> 100,
     maxDelayMs |-> 2000]

\* Date.now() when the module is loaded
Epoch == 1000000

\* path.startsWith(prefix)
StartsWith(path, prefix) ==
    /\ Len(prefix) <= Len(path)
    /\ \A i \in 1..Len(prefix) : path[i] = prefix[i]

\* Math.ceil(x / 1000)
CeilSeconds(x) == IF x >= 0 THEN (x + 999) \div 1000 ELSE -((-x) \div 1000)

Max(a, b) == IF a >= b THEN a ELSE b
Min(a, b) == IF a <= b THEN a ELSE b

getOperationType(method) ==
    IF method \in {"GET", "HEAD", "OPTIONS"} THEN "read"
    ELSE IF method = "DELETE" THEN "delete"
    ELSE "write"

\* the first endpoint override whose prefix matches, else the default of
\* the operation class
getLimit(path, method) ==
    LET hits == {i \in DOMAIN CONFIG.endpointLimits :
                    StartsWith(path, CONFIG.endpointLimits[i].endpoint)}
    IN  IF hits # {}
        THEN LET i == CHOOSE j \in hits : \A k \in hits : j <= k
             IN  [limit |-> CONFIG.endpointLimits[i].limit,
                  window |-> CONFIG.endpointLimits[i].window]
        ELSE [limit |-> CONFIG.limits[getOperationType(method)],
              window |-> CONFIG.windowMs]

\* the key `${ip}:${opType}`: the operation class is the text after the last
\* colon, so distinct pairs give distinct keys
Key(ip, opType) == <<ip, opType>>

\* Map.get, Map.set, Map.delete
Has(map, k) == k \in DOMAIN map
MapSet(map, k, v) == [x \in DOMAIN map \cup {k} |-> IF x = k THEN v ELSE map[x]]
MapKeep(map, keep) == [x \in keep |-> map[x]]

\* entry?.violations || 0 and entry?.lastViolation || 0
NoEntry == [count |-> 0, windowStart |-> 0, violations |-> 0, lastViolation |-> 0]
GetEntry(map, k) == IF Has(map, k) THEN map[k] ELSE NoEntry

\* variant: a pass is due as soon as the interval has elapsed
shouldCleanup_inclusive(t) ==
    \/ t - lastCleanup >= CONFIG.cleanupInterval
    \/ Cardinality(DOMAIN rateLimitStore) > CONFIG.maxEntries

\* shouldCleanup() and the stores after cleanup()
shouldCleanup(t) ==
    \/ t - lastCleanup > CONFIG.cleanupInterval
    \/ Cardinality(DOMAIN rateLimitStore) > CONFIG.maxEntries

cleanupRateLimitStore(map, t) ==
    MapKeep(map, {k \in DOMAIN map : ~(t - map[k].windowStart > CONFIG.windowMs * 2)})

cleanupBlacklistStore(map, t) ==
    MapKeep(map, {k \in DOMAIN map : ~(t > map[k].blockedUntil)})

(***************************************************************************)
(* The rate limiter middleware.  The handler runs from its first line to   *)
(* the progressive delay without an await, so it is one step; a delayed    *)
(* request is resumed by its timer in a second step.                       *)
(***************************************************************************)
\* a header that is not set
NoHeader == -1

\* the requests of one client: an endpoint with an override (limit 5), and
\* a write and a read under the default limits
Requests ==
    { [ip |-> "10.0.0.1", method |-> "POST", path |-> <<"api", "v1", "tags", "merge">>],
      [ip |-> "10.0.0.1", method |-> "POST", path |-> <<"api", "v1", "todos">>],
      [ip |-> "10.0.0.1", method |-> "GET", path |-> <<"api", "v1", "todos">>] }

\* how far the clock moves between two requests: exactly one window, just
\* over one window, just over two windows, the cool-down of the blacklist,
\* and the cool-down and one window
Steps == {CONFIG.windowMs, CONFIG.windowMs + 1, CONFIG.windowMs * 2 + 1,
          CONFIG.blacklistDuration, CONFIG.blacklistDuration + CONFIG.windowMs}

NoResp ==
    [ip |-> "", key |-> <<"", "">>, at |-> 0, outcome |-> "none", status |-> 0,
     limit |-> 0, count |-> 0,
     hLimit |-> NoHeader, hRemaining |-> NoHeader, hReset |-> NoHeader,
     hRetryAfter |-> NoHeader, retryAfter |-> NoHeader, violations |-> 0, delay |-> 0,
     pruned |-> FALSE, nth |-> 0, prev |-> "none", ban |-> 0,
     window |-> 0, since |-> 0, violations0 |-> 0, lastViolation0 |-> 0]

LimiterStart ==
    /\ msNow = Epoch
    /\ rateLimitStore = <<>>
    /\ blacklistStore = <<>>
    /\ lastCleanup = Epoch
    /\ resp = NoResp
    /\ sleeping = {}
    /\ handled = 0
    /\ advances = 0
    /\ tally = <<>>

\* variant: the block still holds at blockedUntil itself
Blacklisted_inclusive(bl, ip, t) == Has(bl, ip) /\ t <= bl[ip].blockedUntil

\* blacklistEntry && now < blacklistEntry.blockedUntil
Blacklisted(bl, ip, t) == Has(bl, ip) /\ t < bl[ip].blockedUntil

\* variant: a window is kept open for as long as the pruning pass keeps it
WindowExpired_late(map, k, t, window) ==
    ~Has(map, k) \/ t - map[k].windowStart > window * 2

\* !entry || now - entry.windowStart > window
WindowExpired(map, k, t, window) ==
    ~Has(map, k) \/ t - map[k].windowStart > window

\* variant: every request moves the start of the window to its arrival
OpenEntry_sliding(map, k, t, window) ==
    IF WindowExpired(map, k, t, window)
    THEN [count |-> 0, windowStart |-> t,
          violations |-> GetEntry(map, k).violations,
          lastViolation |-> GetEntry(map, k).lastViolation]
    ELSE [map[k] EXCEPT !.windowStart = t]

\* the entry the request counts on: a new window keeps the violations
OpenEntry(map, k, t, window) ==
    IF WindowExpired(map, k, t, window)
    THEN [count |-> 0, windowStart |-> t,
          violations |-> GetEntry(map, k).violations,
          lastViolation |-> GetEntry(map, k).lastViolation]
    ELSE map[k]

\* one step less when the last violation is more than two windows old
Decay(e, t) ==
    IF e.violations > 0 /\ t - e.lastViolation > CONFIG.windowMs * 2
    THEN [e EXCEPT !.violations = Max(0, e.violations - 1)]
    ELSE e

\* variant: the time of the violation is not recorded
Violate_unstamped(e, t) == [e EXCEPT !.violations = e.violations + 1]

\* entry.violations++ and entry.lastViolation = now
Violate(e, t) == [e EXCEPT !.violations = e.violations + 1, !.lastViolation = t]

\* variant: the request that uses up the budget is already refused
Exceeded_inclusive(count, limit) == count >= limit

\* entry.count > limit
Exceeded(count, limit) == count > limit

\* variant: the delay begins at 80% of the limit
Delay_early(e, limit) ==
    IF e.count * 10 >= limit * 8 /\ e.violations > 0
    THEN Min(e.violations * CONFIG.progressiveDelayMs, CONFIG.maxDelayMs)
    ELSE 0

\* the progressive delay of an admitted request: count > limit * 0.8 with
\* earlier violations
Delay(e, limit) ==
    IF e.count * 10 > limit * 8 /\ e.violations > 0
    THEN Min(e.violations * CONFIG.progressiveDelayMs, CONFIG.maxDelayMs)
    ELSE 0

\* What the handler decides for request r at time t on the stores rl and bl,
\* and what it leaves for the key of r: the part of the handler after the
\* pruning pass, from the blacklist check to the progressive delay.
Verdict(rl, bl, r, t) ==
    LET cfg == getLimit(r.path, r.method)
        key == Key(r.ip, getOperationType(r.method))
        e1 == Decay(OpenEntry(rl, key, t, cfg.window), t)
        e2 == [e1 EXCEPT !.count = e1.count + 1]
    IN  IF Blacklisted(bl, r.ip, t)
        THEN [decision |-> "blacklist", delay |-> 0,
              count |-> GetEntry(rl, key).count,
              violations |-> GetEntry(rl, key).violations]
        ELSE IF Exceeded(e2.count, cfg.limit)
        THEN [decision |-> "limit", delay |-> 0, count |-> e2.count,
              violations |-> Violate(e2, t).violations]
        ELSE [decision |-> "admit", delay |-> Delay(e2, cfg.limit), count |-> e2.count,
              violations |-> e2.violations]

\* History of the requests counted on key k: the arrival time of the
\* request that began the window, its X-RateLimit-Reset, how many requests
\* were counted since, how many of them were answered 429, and the limit
\* they were held to (0 when they were held to different limits).  A request
\* arriving exactly when the window ends is on neither side: from then on
\* nth is 0 (not tracked) until a request arrives after the end of the window.
Tallied(k, t, window, hReset, limit, refused) ==
    IF ~Has(tally, k) \/ t - tally[k].start > window
    THEN [start |-> t, nth |-> 1, hReset |-> hReset, limit |-> limit,
          refused |-> IF refused THEN 1 ELSE 0]
    ELSE IF t - tally[k].start = window \/ tally[k].nth = 0
    THEN [tally[k] EXCEPT !.nth = 0, !.limit = 0, !.refused = 0]
    ELSE [tally[k] EXCEPT !.nth = tally[k].nth + 1,
                          !.limit = IF tally[k].limit = limit THEN limit ELSE 0,
                          !.refused = tally[k].refused + (IF refused THEN 1 ELSE 0)]

\* The middleware for one request.  full: the store is at the size at which
\* Map.set of a new key throws a RangeError; the keys come from the
\* X-Forwarded-For header, so its size is in the hands of the clients.  The
\* handler has no try/catch: what is thrown in it ends the request.
Serve(r, full) ==
    /\ handled < MaxHandled
    /\ handled' = handled + 1
    /\ UNCHANGED <<msNow, advances>>
    /\ IF ~StartsWith(r.path, <<"api">>)
       THEN /\ resp' = [NoResp EXCEPT !.ip = r.ip, !.at = msNow, !.outcome = "skip"]
            /\ UNCHANGED <<rateLimitStore, blacklistStore, lastCleanup, sleeping, tally>>
       ELSE
       \* the values every branch reads: the time, whether a pruning pass is
       \* due, the stores after it, the limit and the key of the request,
       \* and the entry after window reset, decay and count++
       \E t \in {msNow} :
       \E prune \in {shouldCleanup(t)} :
       \E rl1 \in {IF prune THEN cleanupRateLimitStore(rateLimitStore, t)
                   ELSE rateLimitStore} :
       \E bl1 \in {IF prune THEN cleanupBlacklistStore(blacklistStore, t)
                   ELSE blacklistStore} :
       \E cfg \in {getLimit(r.path, r.method)} :
       \E key \in {Key(r.ip, getOperationType(r.method))} :
       \E e1 \in {Decay(OpenEntry(rl1, key, t, cfg.window), t)} :
       \E e2 \in {[e1 EXCEPT !.count = e1.count + 1]} :
       LET resetAt == e2.windowStart + cfg.window
           remaining == cfg.limit - e2.count
           e3 == Violate(e2, t)
           \* history: the answer to the request before, the blockedUntil of
           \* the client's blacklist entry on arrival (0 when it has none), the
           \* window length of the request, when the last window of its key
           \* began (0 when the key was never counted), and the violations and
           \* lastViolation of its key on arrival
           base == [NoResp EXCEPT !.ip = r.ip, !.key = key, !.at = t, !.pruned = prune,
                                  !.prev = resp.outcome,
                                  !.ban = IF Has(blacklistStore, r.ip)
                                          THEN blacklistStore[r.ip].blockedUntil ELSE 0,
                                  !.window = cfg.window,
                                  !.since = IF Has(tally, key) THEN tally[key].start ELSE 0,
                                  !.violations0 = GetEntry(rateLimitStore, key).violations,
                                  !.lastViolation0 = GetEntry(rateLimitStore, key).lastViolation]
           seen == Tallied(key, t, cfg.window, CeilSeconds(resetAt), cfg.limit,
                           Exceeded(e2.count, cfg.limit))
           counted == [base EXCEPT !.limit = cfg.limit, !.count = e2.count,
                                   !.nth = seen.nth,
                                   !.hLimit = cfg.limit,
                                   !.hRemaining = Max(0, remaining),
                                   !.hReset = CeilSeconds(resetAt)]
       IN
       /\ lastCleanup' = IF prune THEN t ELSE lastCleanup
       /\ tally' = IF Blacklisted(bl1, r.ip, t) \/ (full /\ ~Has(rl1, key))
                   THEN tally ELSE MapSet(tally, key, seen)
       /\ IF Blacklisted(bl1, r.ip, t)
          THEN \* rejected before any counter is looked at
               /\ rateLimitStore' = rl1
               /\ blacklistStore' = bl1
               /\ sleeping' = sleeping
               /\ resp' = [base EXCEPT !.outcome = "blacklist", !.status = 429,
                              !.hRemaining = 0,
                              !.hRetryAfter = CeilSeconds(bl1[r.ip].blockedUntil - t),
                              !.retryAfter = CeilSeconds(bl1[r.ip].blockedUntil - t)]
          ELSE IF full /\ ~Has(rl1, key)
          THEN \* rateLimitStore.set throws: the error leaves the handler
               /\ rateLimitStore' = rl1
               /\ blacklistStore' = bl1
               /\ sleeping' = sleeping
               /\ resp' = [base EXCEPT !.outcome = "error", !.status = 500]
          ELSE IF Exceeded(e2.count, cfg.limit)
          THEN \* the limit is exceeded: one more violation, perhaps the blacklist
               /\ rateLimitStore' = MapSet(rl1, key, e3)
               /\ blacklistStore' =
                    IF e3.violations >= CONFIG.blacklistThreshold
                    THEN MapSet(bl1, r.ip, [blockedUntil |-> t + CONFIG.blacklistDuration,
                                            reason |-> e3.violations])
                    ELSE bl1
               /\ sleeping' = sleeping
               /\ resp' = [counted EXCEPT !.outcome = "limit", !.status = 429,
                              !.hRetryAfter = CeilSeconds(resetAt - t),
                              !.retryAfter = CeilSeconds(resetAt - t),
                              !.violations = e3.violations]
          ELSE \* admitted, at once or after the progressive delay
               /\ rateLimitStore' = MapSet(rl1, key, e2)
               /\ blacklistStore' = bl1
               /\ sleeping' =
                    IF Delay(e2, cfg.limit) > 0
                    THEN sleeping \cup {[id |-> handled, ip |-> r.ip, key |-> key,
                                         count |-> e2.count,
                                         wakeAt |-> t + Delay(e2, cfg.limit)]}
                    ELSE sleeping
               /\ resp' = [counted EXCEPT
                              !.outcome = IF Delay(e2, cfg.limit) > 0 THEN "delayed" ELSE "proceed",
                              !.violations = e2.violations,
                              !.delay = Delay(e2, cfg.limit)]

\* a request while the store has room
Handle(r) ==
    /\ Serve(r, FALSE)
    /\ UNCHANGED <<authVars, clientVars>>

\* a request while the store is full
HandleFull(r) ==
    /\ Serve(r, TRUE)
    /\ UNCHANGED <<authVars, clientVars>>

\* variant: the delayed request writes the count it saw when its timer fires
Resume_writeBack ==
    /\ \E s \in sleeping :
          /\ msNow' = Max(msNow, s.wakeAt)
          /\ sleeping' = sleeping \ {s}
          /\ rateLimitStore' =
                IF Has(rateLimitStore, s.key)
                THEN [rateLimitStore EXCEPT ![s.key].count = s.count]
                ELSE rateLimitStore
    /\ UNCHANGED <<blacklistStore, lastCleanup, resp, handled, advances, tally>>
    /\ UNCHANGED <<authVars, clientVars>>

\* The timer of a delayed request fires, when the delay has passed, and the
\* request goes on to the next stage.  The handler reads, counts and writes
\* its entry before this only await, in one turn of the event loop; what
\* runs after the await touches no store.
Resume ==
    /\ \E s \in sleeping :
          /\ msNow' = Max(msNow, s.wakeAt)
          /\ sleeping' = sleeping \ {s}
    /\ UNCHANGED <<rateLimitStore, blacklistStore, lastCleanup, resp, handled,
                   advances, tally>>
    /\ UNCHANGED <<authVars, clientVars>>

\* the clock moves on
Advance ==
    /\ advances < MaxAdvances
    /\ advances' = advances + 1
    /\ \E d \in Steps : msNow' = msNow + d
    /\ UNCHANGED <<rateLimitStore, blacklistStore, lastCleanup, resp, sleeping, handled, tally>>
    /\ UNCHANGED <<authVars, clientVars>>


NoUser == [id |-> 0, email |-> "", password |-> hashPassword(""), lastLoginAt |-> NoDate]

\* tokens a completed refresh has rotated away, and tokens a refresh has yielded
Rotated == {rotations[i].old : i \in DOMAIN rotations}
Yielded == {rotations[i].new : i \in DOMAIN rotations}

\* a slot with no request in it
Idle ==
    [op |-> "none", pc |-> "idle",
     tok |-> NoToken, bearer |-> NoToken, email |-> "", password |-> "",
     allDevices |-> FALSE,
     userId |-> 0, accessToken |-> NoToken, refreshToken |-> NoToken,
     status |-> 0, code |-> "", ctxUser |-> 0,
     gate |-> FALSE, afterRot |-> FALSE]

\* A new request takes the lowest slot that has never been used, and the
\* slot of an answered request once every slot has been used.
Free(c) ==
    \/ call[c].pc = "idle" /\ \A d \in Slots : call[d].pc = "idle" => c <= d
    \/ call[c].pc = "done" /\ \A d \in Slots : call[d].pc # "idle"

\* the demo account created by the seed script
DemoUser(id) ==
    [id |-> id, email |-> "demo@example.com",
     password |-> hashPassword("Demo1234!"), lastLoginAt |-> NoDate]

(***************************************************************************)
(* The client session state machine (composable useAuth).  Each function   *)
(* runs to its await and resumes when the reply arrives: a call is a step  *)
(* that sends a request, the reply is a second step.  The server is        *)
(* outside this machine: a reply is a success or a failure.                *)
(***************************************************************************)
\* null of a ref or of a localStorage item
Null == 0

\* expiresIn of every token pair the server returns, in seconds
ExpiresIn == ACCESS_TOKEN_EXPIRY

\* module state after load: nothing in memory
Fresh ==
    [user |-> Null, accessToken |-> Null, refreshToken |-> Null,
     refreshTimer |-> "null", refreshPromise |-> FALSE, isRedirecting |-> FALSE]

NoItems == [auth_access_token |-> Null, auth_refresh_token |-> Null, auth_user |-> Null]

\* a browser that opens the application for the first time
ClientStart ==
    /\ client = Fresh
    /\ localStorage = NoItems
    /\ inflight = {}
    /\ ops = 0
    /\ loggedOut = FALSE

\* clearTimeout: a pending timer is dead afterwards, the handle stays
clearTimeout(timer) == IF timer = "pending" THEN "dead" ELSE timer

\* clearAuth(): the refs, the timer and the three items
clearAuth(c) ==
    [c EXCEPT !.user = Null, !.accessToken = Null, !.refreshToken = Null,
              !.refreshTimer = "null"]

\* scheduleTokenRefresh(expiresIn): the timer after the call
scheduleTokenRefresh(timer, expiresIn) ==
    IF (expiresIn - 60) * 1000 > 0 THEN "pending" ELSE clearTimeout(timer)

\* saveAuth(user, tokens): pair n is the pair that reply n carries
saveAuth(c, n) ==
    [c EXCEPT !.user = n, !.accessToken = n, !.refreshToken = n,
              !.refreshTimer = scheduleTokenRefresh(c.refreshTimer, ExpiresIn)]

Saved(n) == [auth_access_token |-> n, auth_refresh_token |-> n, auth_user |-> n]

\* login(credentials) and register(credentials) up to their $fetch
AuthCall(op) ==
    /\ ops < MaxOps
    /\ ops' = ops + 1
    /\ inflight' = inflight \cup {[id |-> ops + 1, op |-> op]}
    /\ loggedOut' = FALSE
    /\ UNCHANGED <<client, localStorage>>
    /\ UNCHANGED <<authVars, limiterVars>>

\* the reply to login or register: saveAuth on success, error.value otherwise
AuthReply ==
    /\ \E q \in inflight, ok \in BOOLEAN :
          /\ q.op \in {"login", "register"}
          /\ inflight' = inflight \ {q}
          /\ IF ok
             THEN /\ client' = saveAuth(client, q.id)
                  /\ localStorage' = Saved(q.id)
                  /\ loggedOut' = FALSE
             ELSE UNCHANGED <<client, localStorage, loggedOut>>
    /\ UNCHANGED ops
    /\ UNCHANGED <<authVars, limiterVars>>

\* the refresh timer fires and runs doRefreshToken() up to its $fetch
TimerFires ==
    /\ client.refreshTimer = "pending"
    /\ IF client.refreshToken = Null \/ client.refreshPromise
       THEN /\ client' = [client EXCEPT !.refreshTimer = "dead"]
            /\ UNCHANGED <<inflight, ops>>
       ELSE /\ ops < MaxOps
            /\ client' = [client EXCEPT !.refreshTimer = "dead", !.refreshPromise = TRUE]
            /\ ops' = ops + 1
            /\ inflight' = inflight \cup {[id |-> ops + 1, op |-> "refresh"]}
    /\ UNCHANGED <<localStorage, loggedOut>>
    /\ UNCHANGED <<authVars, limiterVars>>

\* the reply to the refresh request: the new pair is stored and the next
\* refresh scheduled, or clearAuth() in the catch; refreshPromise = null
RefreshReply ==
    /\ \E q \in inflight, ok \in BOOLEAN :
          /\ q.op = "refresh"
          /\ inflight' = inflight \ {q}
          /\ IF ok
             THEN /\ client' = [client EXCEPT
                         !.accessToken = q.id, !.refreshToken = q.id,
                         !.refreshTimer = scheduleTokenRefresh(client.refreshTimer, ExpiresIn),
                         !.refreshPromise = FALSE]
                  /\ localStorage' = [localStorage EXCEPT !.auth_access_token = q.id,
                                                          !.auth_refresh_token = q.id]
             ELSE /\ client' = [clearAuth(client) EXCEPT !.refreshPromise = FALSE]
                  /\ localStorage' = NoItems
    /\ UNCHANGED <<ops, loggedOut>>
    /\ UNCHANGED <<authVars, limiterVars>>

\* logout(allDevices) up to its $fetch; without an access token there is
\* no request and clearAuth() runs at once
LogoutCall ==
    /\ ops < MaxOps
    /\ ops' = ops + 1
    /\ IF client.accessToken # Null
       THEN /\ inflight' = inflight \cup {[id |-> ops + 1, op |-> "logout"]}
            /\ UNCHANGED <<client, localStorage, loggedOut>>
       ELSE /\ client' = clearAuth(client)
            /\ localStorage' = NoItems
            /\ loggedOut' = TRUE
            /\ UNCHANGED inflight
    /\ UNCHANGED <<authVars, limiterVars>>

\* the reply to the logout request, whatever it is: clearAuth() in finally
LogoutReply ==
    /\ \E q \in inflight :
          /\ q.op = "logout"
          /\ inflight' = inflight \ {q}
    /\ client' = clearAuth(client)
    /\ localStorage' = NoItems
    /\ loggedOut' = TRUE
    /\ UNCHANGED ops
    /\ UNCHANGED <<authVars, limiterVars>>

\* fetchCurrentUser() up to its $fetch
FetchCall ==
    /\ ops < MaxOps
    /\ client.accessToken # Null
    /\ ops' = ops + 1
    /\ inflight' = inflight \cup {[id |-> ops + 1, op |-> "me"]}
    /\ UNCHANGED <<client, localStorage, loggedOut>>
    /\ UNCHANGED <<authVars, limiterVars>>

\* the reply to fetchCurrentUser: user.value on success, clearAuth() in the catch
FetchReply ==
    /\ \E q \in inflight, ok \in BOOLEAN :
          /\ q.op = "me"
          /\ inflight' = inflight \ {q}
          /\ IF ok
             THEN /\ client' = [client EXCEPT !.user = q.id]
                  /\ UNCHANGED localStorage
             ELSE /\ client' = clearAuth(client)
                  /\ localStorage' = NoItems
    /\ UNCHANGED <<ops, loggedOut>>
    /\ UNCHANGED <<authVars, limiterVars>>

\* the page is loaded again: the module state is new, timers and requests
\* of the old page are gone, localStorage stays; the first useAuth() runs
\* initAuth(), which restores a stored session and calls fetchCurrentUser()
Reload ==
    /\ ops < MaxOps
    /\ ops' = ops + 1
    /\ IF /\ localStorage.auth_access_token # Null
          /\ localStorage.auth_refresh_token # Null
          /\ localStorage.auth_user # Null
       THEN /\ client' = [Fresh EXCEPT !.user = localStorage.auth_user,
                                       !.accessToken = localStorage.auth_access_token,
                                       !.refreshToken = localStorage.auth_refresh_token]
            /\ inflight' = {[id |-> ops + 1, op |-> "me"]}
       ELSE /\ client' = Fresh
            /\ inflight' = {}
    /\ UNCHANGED <<localStorage, loggedOut>>
    /\ UNCHANGED <<authVars, limiterVars>>

\* handleAuthError(): clearAuth() and, once the current turn is over, the
\* redirect to the login page
HandleAuthError ==
    /\ ~client.isRedirecting
    /\ client' = [clearAuth(client) EXCEPT !.isRedirecting = TRUE]
    /\ localStorage' = NoItems
    /\ UNCHANGED <<inflight, ops, loggedOut>>
    /\ UNCHANGED <<authVars, limiterVars>>

\* the setTimeout(..., 0) of handleAuthError
Redirect ==
    /\ client.isRedirecting
    /\ client' = [client EXCEPT !.isRedirecting = FALSE]
    /\ UNCHANGED <<localStorage, inflight, ops, loggedOut>>
    /\ UNCHANGED <<authVars, limiterVars>>

ClientInit ==
    /\ ClientStart
    /\ LimiterStart
    /\ now = 0 /\ ticks = 0 /\ nextId = 2 /\ started = 0
    /\ users = {DemoUser(1)} /\ ledger = {} /\ issued = {} /\ rotations = <<>>
    /\ call = [c \in Slots |-> Idle]

ClientNext ==
    \/ \E op \in {"login", "register"} : AuthCall(op)
    \/ AuthReply
    \/ TimerFires
    \/ RefreshReply
    \/ LogoutCall
    \/ LogoutReply
    \/ FetchCall
    \/ FetchReply
    \/ HandleAuthError
    \/ Redirect
    \/ Reload

ClientSpec == ClientInit /\ [][ClientNext]_vars

\* The database right after the seed script, and the same database one
\* second after the demo account has logged in (the state LoginStamp leaves
\* behind, followed by a Tick).
Init ==
    /\ LimiterStart
    /\ ClientStart
    /\ ticks = 0
    /\ nextId = 2
    /\ call = [c \in Slots |-> Idle]
    /\ started = 0
    /\ rotations = <<>>
    /\ \/ /\ now = 0
          /\ users = {DemoUser(1)}
          /\ ledger = {}
          /\ issued = {}
       \/ /\ now = 1
          /\ users = {[DemoUser(1) EXCEPT !.lastLoginAt = 0]}
          /\ ledger = {[token |-> generateRefreshToken(1, 0), userId |-> 1,
                        expiresAt |-> getRefreshTokenExpiry(0), revokedAt |-> NoDate]}
          /\ issued = {generateAccessToken(1, 0), generateRefreshToken(1, 0)}

(***************************************************************************)
(* Table access.                                                           *)
(***************************************************************************)
\* prisma.user.findUnique({ where: { email } })
FindUserByEmail(e) ==
    IF \E u \in users : u.email = e THEN CHOOSE u \in users : u.email = e ELSE NoUser

\* prisma.user.findUnique({ where: { id } })
FindUserById(id) ==
    IF \E u \in users : u.id = id THEN CHOOSE u \in users : u.id = id ELSE NoUser

\* prisma.refreshToken.findUnique({ where: { token } })
HasRecord(l, tok) == \E r \in l : r.token = tok
FindRecord(l, tok) == CHOOSE r \in l : r.token = tok

\* exists, not revoked, not expired
isRefreshTokenValid(l, tok, t) ==
    /\ HasRecord(l, tok)
    /\ FindRecord(l, tok).revokedAt = NoDate
    /\ ~(FindRecord(l, tok).expiresAt < t)

\* refreshToken.create: rejected by the unique index on token (P2002) and by
\* the foreign key on userId (P2003)
CanStore(l, uid, tok) == ~HasRecord(l, tok) /\ (\E u \in users : u.id = uid)

storeRefreshToken(l, uid, tok, exp) ==
    l \cup {[token |-> tok, userId |-> uid, expiresAt |-> exp, revokedAt |-> NoDate]}

\* variant: the revocation stamp is flipped instead of set
revokeRefreshToken_toggle(l, tok, t) ==
    {IF r.token = tok
     THEN [r EXCEPT !.revokedAt = IF r.revokedAt = NoDate THEN t ELSE NoDate]
     ELSE r : r \in l}

\* updateMany({ where: { token }, data: { revokedAt: new Date() } })
revokeRefreshToken(l, tok, t) ==
    {IF r.token = tok THEN [r EXCEPT !.revokedAt = t] ELSE r : r \in l}

\* variant: the where clause lacks the userId
revokeAllUserTokens_everyone(l, uid, t) ==
    {IF r.revokedAt = NoDate THEN [r EXCEPT !.revokedAt = t] ELSE r : r \in l}

\* updateMany({ where: { userId, revokedAt: null }, data: { revokedAt: new Date() } })
revokeAllUserTokens(l, uid, t) ==
    {IF r.userId = uid /\ r.revokedAt = NoDate THEN [r EXCEPT !.revokedAt = t] ELSE r : r \in l}

\* variant: the where clause lacks the revoked records
cleanupExpiredTokens_expiredOnly(l, t) ==
    {r \in l : ~(r.expiresAt < t)}

\* deleteMany({ where: { OR: [expiresAt < now, revokedAt not null] } })
cleanupExpiredTokens(l, t) ==
    {r \in l : ~(r.expiresAt < t \/ r.revokedAt # NoDate)}

\* user.update({ where: { id }, data: { lastLoginAt: new Date() } })
StampLastLogin(us, id, t) ==
    {IF u.id = id THEN [u EXCEPT !.lastLoginAt = t] ELSE u : u \in us}

(***************************************************************************)
(* Responses.                                                              *)
(***************************************************************************)
Fail(c, status, code) ==
    [call EXCEPT ![c].pc = "done", ![c].status = status, ![c].code = code]

\* an error that no handler catches: h3 answers 500 without a code
Crash(c) == Fail(c, 500, "")

(***************************************************************************)
(* The clock.  A second may pass between any two steps; a long period      *)
(* passes only while no request is in flight (requests are subject to the  *)
(* request timeout).  A slot whose request is done takes the next request. *)
(***************************************************************************)
Tick ==
    /\ ticks < MaxTicks
    /\ now' = now + 1
    /\ ticks' = ticks + 1
    /\ UNCHANGED <<users, nextId, ledger, call, started, issued, rotations>>
    /\ UNCHANGED <<limiterVars, clientVars>>

Elapse ==
    /\ ticks < MaxTicks
    /\ \A c \in Slots : call[c].pc \in {"idle", "done"}
    /\ \E d \in Deltas : now' = now + d
    /\ ticks' = ticks + 1
    /\ UNCHANGED <<users, nextId, ledger, call, started, issued, rotations>>
    /\ UNCHANGED <<limiterVars, clientVars>>

(***************************************************************************)
(* POST /api/v1/auth/login                                                 *)
(***************************************************************************)
\* variant: an unknown email is answered with its own code
LoginFind_enumerable(c) ==
    /\ Free(c)
    /\ started < MaxCalls
    /\ started' = started + 1
    /\ \E e \in RawEmails, p \in Passwords :
        LET body == [Idle EXCEPT !.op = "login", !.email = e, !.password = p]
            email == ToLowerCase(Trim(e))
            user == FindUserByEmail(email)
            fail(s, k) == [call EXCEPT ![c] = [body EXCEPT !.pc = "done", !.status = s, !.code = k]]
        IN  call' =
              IF Trim(e) = "" THEN fail(400, "AUTH_EMAIL_REQUIRED")
              ELSE IF ~isValidEmail(Trim(e)) THEN fail(400, "INVALID_EMAIL_FORMAT")
              ELSE IF p = "" THEN fail(400, "AUTH_PASSWORD_REQUIRED")
              ELSE IF user = NoUser THEN fail(401, "AUTH_USER_NOT_FOUND")
              ELSE IF ~verifyPassword(p, user.password) THEN fail(401, "AUTH_INVALID_CREDENTIALS")
              ELSE [call EXCEPT ![c] = [body EXCEPT !.pc = "generate", !.userId = user.id]]
    /\ UNCHANGED <<now, ticks, users, nextId, ledger, issued, rotations>>
    /\ UNCHANGED <<limiterVars, clientVars>>

\* validation, user lookup and password check
LoginFind(c) ==
    /\ Free(c)
    /\ started < MaxCalls
    /\ started' = started + 1
    /\ \E e \in RawEmails, p \in Passwords :
        LET body == [Idle EXCEPT !.op = "login", !.email = e, !.password = p]
            email == ToLowerCase(Trim(e))
            user == FindUserByEmail(email)
            fail(s, k) == [call EXCEPT ![c] = [body EXCEPT !.pc = "done", !.status = s, !.code = k]]
        IN  call' =
              IF Trim(e) = "" THEN fail(400, "AUTH_EMAIL_REQUIRED")
              ELSE IF ~isValidEmail(Trim(e)) THEN fail(400, "INVALID_EMAIL_FORMAT")
              ELSE IF p = "" THEN fail(400, "AUTH_PASSWORD_REQUIRED")
              ELSE IF user = NoUser THEN fail(401, "AUTH_INVALID_CREDENTIALS")
              ELSE IF ~verifyPassword(p, user.password) THEN fail(401, "AUTH_INVALID_CREDENTIALS")
              ELSE [call EXCEPT ![c] = [body EXCEPT !.pc = "generate", !.userId = user.id]]
    /\ UNCHANGED <<now, ticks, users, nextId, ledger, issued, rotations>>
    /\ UNCHANGED <<limiterVars, clientVars>>

\* generateTokenPair
LoginGenerate(c) ==
    /\ call[c].op = "login" /\ call[c].pc = "generate"
    /\ call' = [call EXCEPT ![c].pc = "store",
                            ![c].accessToken = generateAccessToken(call[c].userId, now),
                            ![c].refreshToken = generateRefreshToken(call[c].userId, now)]
    /\ UNCHANGED <<now, ticks, users, nextId, ledger, started, issued, rotations>>
    /\ UNCHANGED <<limiterVars, clientVars>>

\* storeRefreshToken
LoginStore(c) ==
    /\ call[c].op = "login" /\ call[c].pc = "store"
    /\ IF CanStore(ledger, call[c].userId, call[c].refreshToken)
       THEN /\ ledger' = storeRefreshToken(ledger, call[c].userId, call[c].refreshToken,
                                           getRefreshTokenExpiry(now))
            /\ call' = [call EXCEPT ![c].pc = "stamp"]
       ELSE /\ ledger' = ledger
            /\ call' = Crash(c)
    /\ UNCHANGED <<now, ticks, users, nextId, started, issued, rotations>>
    /\ UNCHANGED <<limiterVars, clientVars>>

\* user.update lastLoginAt, then the response
LoginStamp(c) ==
    /\ call[c].op = "login" /\ call[c].pc = "stamp"
    /\ IF FindUserById(call[c].userId) # NoUser
       THEN /\ users' = StampLastLogin(users, call[c].userId, now)
            /\ call' = [call EXCEPT ![c].pc = "done", ![c].status = 200]
            /\ issued' = issued \cup {call[c].accessToken, call[c].refreshToken}
       ELSE /\ users' = users
            /\ call' = Crash(c)
            /\ issued' = issued
    /\ UNCHANGED <<now, ticks, nextId, ledger, started, rotations>>
    /\ UNCHANGED <<limiterVars, clientVars>>

(***************************************************************************)
(* requireAuth(event).  Its one read of shared state is the user lookup;   *)
(* the signature and expiry check just before it reads only the clock.     *)
(* The result is an error code, or "" with the identity to attach.         *)
(***************************************************************************)
\* extractBearerToken: null unless the header starts with 'Bearer '
extractBearerToken(bearer) == bearer

\* variant: the payload type is not checked
requireAuth_anyType(bearer) ==
    IF extractBearerToken(bearer) = NoToken THEN [code |-> "AUTH_TOKEN_REQUIRED", user |-> 0]
    ELSE IF ~verifyToken(bearer, now) THEN [code |-> "AUTH_TOKEN_INVALID", user |-> 0]
    ELSE IF FindUserById(bearer.sub) = NoUser THEN [code |-> "AUTH_USER_NOT_FOUND", user |-> 0]
    ELSE [code |-> "", user |-> bearer.sub]

\* variant: the bearer is accepted only while its user has a live ledger record
requireAuth_session(bearer) ==
    IF extractBearerToken(bearer) = NoToken THEN [code |-> "AUTH_TOKEN_REQUIRED", user |-> 0]
    ELSE IF ~verifyToken(bearer, now) \/ bearer.type # "access"
            \/ ~(\E r \in ledger : r.userId = bearer.sub /\ r.revokedAt = NoDate)
         THEN [code |-> "AUTH_TOKEN_INVALID", user |-> 0]
    ELSE IF FindUserById(bearer.sub) = NoUser THEN [code |-> "AUTH_USER_NOT_FOUND", user |-> 0]
    ELSE [code |-> "", user |-> bearer.sub]

requireAuth(bearer) ==
    IF extractBearerToken(bearer) = NoToken THEN [code |-> "AUTH_TOKEN_REQUIRED", user |-> 0]
    ELSE IF ~verifyToken(bearer, now) \/ bearer.type # "access"
         THEN [code |-> "AUTH_TOKEN_INVALID", user |-> 0]
    ELSE IF FindUserById(bearer.sub) = NoUser THEN [code |-> "AUTH_USER_NOT_FOUND", user |-> 0]
    ELSE [code |-> "", user |-> bearer.sub]

\* what a client can put into a header or a body: nothing, a token it was
\* given, or a token it made up, whose signature does not verify
Presentable ==
    {NoToken} \cup issued
       \cup {Forge(generateAccessToken(1, 0))}

(***************************************************************************)
(* GET /api/v1/auth/me                                                     *)
(***************************************************************************)
Me(c) ==
    /\ Free(c)
    /\ started < MaxCalls
    /\ started' = started + 1
    /\ \E b \in Presentable :
        LET body == [Idle EXCEPT !.op = "me", !.bearer = b]
            auth == requireAuth(b)
        IN  call' =
              IF auth.code # ""
              THEN [call EXCEPT ![c] = [body EXCEPT !.pc = "done", !.status = 401, !.code = auth.code]]
              ELSE [call EXCEPT ![c] = [body EXCEPT !.pc = "load", !.ctxUser = auth.user]]
    /\ UNCHANGED <<now, ticks, users, nextId, ledger, issued, rotations>>
    /\ UNCHANGED <<limiterVars, clientVars>>

\* the second lookup, for the full projection
MeLoad(c) ==
    /\ call[c].op = "me" /\ call[c].pc = "load"
    /\ call' = IF FindUserById(call[c].ctxUser) = NoUser
               THEN Fail(c, 404, "")
               ELSE [call EXCEPT ![c].pc = "done", ![c].status = 200]
    /\ UNCHANGED <<now, ticks, users, nextId, ledger, started, issued, rotations>>
    /\ UNCHANGED <<limiterVars, clientVars>>

(***************************************************************************)
(* POST /api/v1/auth/logout                                                *)
(***************************************************************************)
LogoutAuth(c) ==
    /\ Free(c)
    /\ started < MaxCalls
    /\ started' = started + 1
    /\ \E b \in Presentable :
        LET auth == requireAuth(b)
        IN  IF auth.code # ""
            THEN call' = [call EXCEPT ![c] = [Idle EXCEPT !.op = "logout", !.bearer = b,
                              !.pc = "done", !.status = 401, !.code = auth.code]]
            ELSE \* readBody: only now does the handler look at the body
                 \E t \in {NoToken} \cup {r \in issued : r.type = "refresh"}, all \in BOOLEAN :
                    call' = [call EXCEPT ![c] = [Idle EXCEPT !.op = "logout", !.bearer = b,
                                !.tok = t, !.allDevices = all,
                                !.pc = "revoke", !.ctxUser = auth.user]]
    /\ UNCHANGED <<now, ticks, users, nextId, ledger, issued, rotations>>
    /\ UNCHANGED <<limiterVars, clientVars>>

LogoutRevoke(c) ==
    /\ call[c].op = "logout" /\ call[c].pc = "revoke"
    /\ ledger' =
         IF call[c].allDevices THEN revokeAllUserTokens(ledger, call[c].ctxUser, now)
         ELSE IF call[c].tok # NoToken THEN revokeRefreshToken(ledger, call[c].tok, now)
         ELSE ledger
    /\ call' = [call EXCEPT ![c].pc = "done", ![c].status = 200, ![c].code = "loggedOut"]
    /\ UNCHANGED <<now, ticks, users, nextId, started, issued, rotations>>
    /\ UNCHANGED <<limiterVars, clientVars>>

(***************************************************************************)
(* POST /api/v1/auth/refresh                                               *)
(***************************************************************************)
\* readBody, the missing-token check, verifyToken and the type check
RefreshBegin(c) ==
    /\ Free(c)
    /\ started < MaxCalls
    /\ started' = started + 1
    /\ \E t \in Presentable :
        LET body == [Idle EXCEPT !.op = "refresh", !.tok = t,
                                 !.afterRot = (t \in Rotated)]
            fail(s, k) == [call EXCEPT ![c] = [body EXCEPT !.pc = "done", !.status = s, !.code = k]]
        IN  call' =
              IF t = NoToken THEN fail(400, "AUTH_REFRESH_TOKEN_INVALID")
              ELSE IF ~verifyToken(t, now) \/ t.type # "refresh"
                   THEN fail(401, "AUTH_REFRESH_TOKEN_INVALID")
              ELSE [call EXCEPT ![c] = [body EXCEPT !.pc = "check"]]
    /\ UNCHANGED <<now, ticks, users, nextId, ledger, issued, rotations>>
    /\ UNCHANGED <<limiterVars, clientVars>>

\* isRefreshTokenValid
RefreshCheck(c) ==
    /\ call[c].op = "refresh" /\ call[c].pc = "check"
    /\ call' = IF ~isRefreshTokenValid(ledger, call[c].tok, now)
               THEN Fail(c, 401, "AUTH_REFRESH_TOKEN_INVALID")
               ELSE [call EXCEPT ![c].pc = "user"]
    /\ UNCHANGED <<now, ticks, users, nextId, ledger, started, issued, rotations>>
    /\ UNCHANGED <<limiterVars, clientVars>>

\* user.findUnique({ where: { id: payload.userId } })
RefreshLoadUser(c) ==
    /\ call[c].op = "refresh" /\ call[c].pc = "user"
    /\ call' = IF FindUserById(call[c].tok.sub) = NoUser
               THEN Fail(c, 401, "AUTH_USER_NOT_FOUND")
               ELSE [call EXCEPT ![c].pc = "revoke", ![c].userId = call[c].tok.sub]
    /\ UNCHANGED <<now, ticks, users, nextId, ledger, started, issued, rotations>>
    /\ UNCHANGED <<limiterVars, clientVars>>

\* revokeRefreshToken(body.refreshToken); gate records whether the record
\* was still redeemable when this call revoked it
RefreshRevoke(c) ==
    /\ call[c].op = "refresh" /\ call[c].pc = "revoke"
    /\ ledger' = revokeRefreshToken(ledger, call[c].tok, now)
    /\ call' = [call EXCEPT ![c].pc = "generate",
                            ![c].gate = isRefreshTokenValid(ledger, call[c].tok, now)]
    /\ UNCHANGED <<now, ticks, users, nextId, started, issued, rotations>>
    /\ UNCHANGED <<limiterVars, clientVars>>

\* generateTokenPair(user)
RefreshGenerate(c) ==
    /\ call[c].op = "refresh" /\ call[c].pc = "generate"
    /\ call' = [call EXCEPT ![c].pc = "store",
                            ![c].accessToken = generateAccessToken(call[c].userId, now),
                            ![c].refreshToken = generateRefreshToken(call[c].userId, now)]
    /\ UNCHANGED <<now, ticks, users, nextId, ledger, started, issued, rotations>>
    /\ UNCHANGED <<limiterVars, clientVars>>

\* storeRefreshToken, then the response
RefreshStore(c) ==
    /\ call[c].op = "refresh" /\ call[c].pc = "store"
    /\ IF CanStore(ledger, call[c].userId, call[c].refreshToken)
       THEN /\ ledger' = storeRefreshToken(ledger, call[c].userId, call[c].refreshToken,
                                           getRefreshTokenExpiry(now))
            /\ call' = [call EXCEPT ![c].pc = "done", ![c].status = 200]
            /\ issued' = issued \cup {call[c].accessToken, call[c].refreshToken}
            /\ rotations' = Append(rotations, [old |-> call[c].tok, new |-> call[c].refreshToken])
       ELSE /\ ledger' = ledger
            /\ call' = Crash(c)
            /\ UNCHANGED <<issued, rotations>>
    /\ UNCHANGED <<now, ticks, users, nextId, started>>
    /\ UNCHANGED <<limiterVars, clientVars>>

(***************************************************************************)
(* POST /api/v1/auth/register                                              *)
(***************************************************************************)
\* validation and the lookup of an existing account
RegisterCheck(c) ==
    /\ Free(c)
    /\ started < MaxCalls
    /\ started' = started + 1
    /\ \E e \in RawEmails, p \in Passwords :
        LET body == [Idle EXCEPT !.op = "register", !.email = e, !.password = p]
            email == ToLowerCase(Trim(e))
            fail(s, k) == [call EXCEPT ![c] = [body EXCEPT !.pc = "done", !.status = s, !.code = k]]
        IN  call' =
              IF Trim(e) = "" THEN fail(400, "AUTH_EMAIL_REQUIRED")
              ELSE IF ~isValidEmail(Trim(e)) THEN fail(400, "INVALID_EMAIL_FORMAT")
              ELSE IF p = "" THEN fail(400, "AUTH_PASSWORD_REQUIRED")
              ELSE IF isValidPassword(p) # "valid" THEN fail(400, isValidPassword(p))
              ELSE IF FindUserByEmail(email) # NoUser THEN fail(409, "AUTH_EMAIL_EXISTS")
              ELSE [call EXCEPT ![c] = [body EXCEPT !.pc = "create"]]
    /\ UNCHANGED <<now, ticks, users, nextId, ledger, issued, rotations>>
    /\ UNCHANGED <<limiterVars, clientVars>>

\* hashPassword and user.create; email carries a unique index (P2002)
RegisterCreate(c) ==
    /\ call[c].op = "register" /\ call[c].pc = "create"
    /\ LET email == ToLowerCase(Trim(call[c].email))
       IN  IF FindUserByEmail(email) = NoUser
           THEN /\ users' = users \cup {[id |-> nextId, email |-> email,
                                        password |-> hashPassword(call[c].password),
                                        lastLoginAt |-> NoDate]}
                /\ nextId' = nextId + 1
                /\ call' = [call EXCEPT ![c].pc = "generate", ![c].userId = nextId]
           ELSE /\ call' = Crash(c)
                /\ UNCHANGED <<users, nextId>>
    /\ UNCHANGED <<now, ticks, ledger, started, issued, rotations>>
    /\ UNCHANGED <<limiterVars, clientVars>>

RegisterGenerate(c) ==
    /\ call[c].op = "register" /\ call[c].pc = "generate"
    /\ call' = [call EXCEPT ![c].pc = "store",
                            ![c].accessToken = generateAccessToken(call[c].userId, now),
                            ![c].refreshToken = generateRefreshToken(call[c].userId, now)]
    /\ UNCHANGED <<now, ticks, users, nextId, ledger, started, issued, rotations>>
    /\ UNCHANGED <<limiterVars, clientVars>>

RegisterStore(c) ==
    /\ call[c].op = "register" /\ call[c].pc = "store"
    /\ IF CanStore(ledger, call[c].userId, call[c].refreshToken)
       THEN /\ ledger' = storeRefreshToken(ledger, call[c].userId, call[c].refreshToken,
                                           getRefreshTokenExpiry(now))
            /\ call' = [call EXCEPT ![c].pc = "stamp"]
       ELSE /\ ledger' = ledger
            /\ call' = Crash(c)
    /\ UNCHANGED <<now, ticks, users, nextId, started, issued, rotations>>
    /\ UNCHANGED <<limiterVars, clientVars>>

RegisterStamp(c) ==
    /\ call[c].op = "register" /\ call[c].pc = "stamp"
    /\ IF FindUserById(call[c].userId) # NoUser
       THEN /\ users' = StampLastLogin(users, call[c].userId, now)
            /\ call' = [call EXCEPT ![c].pc = "done", ![c].status = 200]
            /\ issued' = issued \cup {call[c].accessToken, call[c].refreshToken}
       ELSE /\ users' = users
            /\ call' = Crash(c)
            /\ issued' = issued
    /\ UNCHANGED <<now, ticks, nextId, ledger, started, rotations>>
    /\ UNCHANGED <<limiterVars, clientVars>>

(***************************************************************************)
(* Maintenance outside the request path.                                   *)
(***************************************************************************)
\* the periodic ledger sweep
Sweep ==
    /\ cleanupExpiredTokens(ledger, now) # ledger
    /\ ledger' = cleanupExpiredTokens(ledger, now)
    /\ UNCHANGED <<now, ticks, users, nextId, call, started, issued, rotations>>
    /\ UNCHANGED <<limiterVars, clientVars>>

\* the seed script: refreshToken.deleteMany(), user.deleteMany(), then the
\* demo account under a fresh id
Seed ==
    /\ started < MaxCalls
    /\ started' = started + 1
    /\ ledger' = {}
    /\ users' = {DemoUser(nextId)}
    /\ nextId' = nextId + 1
    /\ UNCHANGED <<now, ticks, call, issued, rotations>>
    /\ UNCHANGED <<limiterVars, clientVars>>

Next ==
    \/ Tick
    \/ Elapse
    \/ \E c \in Slots : LoginFind(c)
    \/ \E c \in Slots : LoginGenerate(c)
    \/ \E c \in Slots : LoginStore(c)
    \/ \E c \in Slots : LoginStamp(c)
    \/ \E c \in Slots : Me(c)
    \/ \E c \in Slots : MeLoad(c)
    \/ \E c \in Slots : LogoutAuth(c)
    \/ \E c \in Slots : LogoutRevoke(c)
    \/ \E c \in Slots : RefreshBegin(c)
    \/ \E c \in Slots : RefreshCheck(c)
    \/ \E c \in Slots : RefreshLoadUser(c)
    \/ \E c \in Slots : RefreshRevoke(c)
    \/ \E c \in Slots : RefreshGenerate(c)
    \/ \E c \in Slots : RefreshStore(c)
    \/ \E c \in Slots : RegisterCheck(c)
    \/ \E c \in Slots : RegisterCreate(c)
    \/ \E c \in Slots : RegisterGenerate(c)
    \/ \E c \in Slots : RegisterStore(c)
    \/ \E c \in Slots : RegisterStamp(c)
    \/ Sweep
    \/ Seed

Spec == Init /\ [][Next]_vars

(***************************************************************************)
(* The rate limiter on its own, in front of a freshly seeded database.     *)
(***************************************************************************)
LimiterInit ==
    /\ LimiterStart
    /\ ClientStart
    /\ now = 0 /\ ticks = 0 /\ nextId = 2 /\ started = 0
    /\ users = {DemoUser(1)} /\ ledger = {} /\ issued = {} /\ rotations = <<>>
    /\ call = [c \in Slots |-> Idle]

LimiterNext ==
    \/ \E r \in Requests : Handle(r)
    \/ Resume
    \/ Advance

LimiterSpec == LimiterInit /\ [][LimiterNext]_vars

\* the same with a store that may be full when a request arrives
FullStoreNext ==
    \/ \E r \in Requests : Handle(r)
    \/ \E r \in Requests : HandleFull(r)
    \/ Resume
    \/ Advance

FullStoreSpec == LimiterInit /\ [][FullStoreNext]_vars

(***************************************************************************)
(* Properties.                                                             *)
(***************************************************************************)
Done(c, op) == call[c].op = op /\ call[c].pc = "done"

RefreshInvalid(c) == call[c].status = 401 /\ call[c].code = "AUTH_REFRESH_TOKEN_INVALID"

\* C1: refresh calls presenting the same valid refresh token never both
\* return a new pair: for one presented token at most one rotation is ever
\* answered and persisted, however the calls interleave.
C1_SingleRotation ==
    \A i \in DOMAIN rotations, j \in DOMAIN rotations :
        i # j => rotations[i].old # rotations[j].old

\* C2: a refresh call returns and persists a new pair only if the presented
\* token's record was still unrevoked and unexpired when the call revoked it;
\* a record that logout, another refresh or the passing of time had already
\* invalidated (or the sweep had removed) never authorizes a new pair.
C2_NoIssueOnInvalidRecord ==
    \A c \in Slots :
        Done(c, "refresh") /\ call[c].status = 200 => call[c].gate

\* C3: once a refresh presenting T has been answered with T', every refresh
\* call that begins later and presents T fails with REFRESH_TOKEN_INVALID,
\* and the first presentation of a yielded T' whose record is still
\* redeemable succeeds.
C3_RotationSafety ==
    \A c \in Slots :
        Done(c, "refresh") =>
            /\ call[c].afterRot => RefreshInvalid(c)
            /\ (call[c].tok \in Yielded /\ ~call[c].afterRot /\ call[c].gate)
                  => call[c].status = 200

\* C4: every failing refresh call that presented a token fails with the one
\* code REFRESH_TOKEN_INVALID (HTTP 401), whichever check failed.
C4_OneRefreshErrorCode ==
    \A c \in Slots :
        Done(c, "refresh") /\ call[c].tok # NoToken /\ call[c].status # 200
            => RefreshInvalid(c)

\* C10: after a successful login that issued T, a refresh that presents T
\* while its record is redeemable, also in the clock second of the login,
\* succeeds and returns a refresh token different from T; every token of the
\* ledger belongs to exactly one record.
C10_ImmediateRefreshRotates ==
    /\ \A c \in Slots, d \in Slots :
         (/\ Done(d, "login") /\ call[d].status = 200
          /\ Done(c, "refresh") /\ call[c].tok = call[d].refreshToken
          /\ call[c].gate /\ (\E u \in users : u.id = call[c].userId))
            => /\ call[c].status = 200
               /\ call[c].refreshToken # call[c].tok
    /\ \A r1 \in ledger, r2 \in ledger : r1.token = r2.token => r1 = r2

\* the step in which slot c takes a new request
Begins(c) == call[c].pc \in {"idle", "done"} /\ call'[c] # call[c]

\* the step in which the logout in slot c performs its revocation
LogoutRevokes(c) == call[c].op = "logout" /\ call[c].pc = "revoke" /\ call'[c].pc = "done"

\* C5: a login with an email that has no account and a login with an existing
\* email and a wrong password get the same response, 401 INVALID_CREDENTIALS
\* without tokens, and neither changes the user table or the ledger.
C5_LoginFailuresAlike ==
    [][\A c \in Slots :
        (/\ Begins(c) /\ call'[c].op = "login"
         /\ isValidEmail(Trim(call'[c].email)) /\ call'[c].password # ""
         /\ \A u \in users : u.email = ToLowerCase(Trim(call'[c].email))
                                => u.password # hashPassword(call'[c].password))
          => /\ call'[c].pc = "done"
             /\ call'[c].status = 401 /\ call'[c].code = "AUTH_INVALID_CREDENTIALS"
             /\ call'[c].accessToken = NoToken /\ call'[c].refreshToken = NoToken
             /\ users' = users /\ ledger' = ledger /\ issued' = issued]_vars

\* both kinds of failing login have been answered
C5_Witness ==
    \E c \in Slots, d \in Slots :
        /\ Done(c, "login") /\ call[c].email = "demo@example.com" /\ call[c].password = "short"
        /\ Done(d, "login") /\ call[d].email = "new@example.com" /\ call[d].password = "short"
        /\ ~(\E u \in users : u.email = "new@example.com")
        /\ call[c].status = 401 /\ call[d].status = call[c].status /\ call[d].code = call[c].code

\* C6: requireAuth answers 401 TOKEN_REQUIRED without a bearer token, 401
\* TOKEN_INVALID for a bad signature or a type other than 'access', 401
\* USER_NOT_FOUND when the subject no longer exists, and attaches an identity
\* to the request only when the token verifies as an access token of an
\* existing user.
C6_RequireAuthOutcomes ==
    [][\A c \in Slots :
        (Begins(c) /\ call'[c].op \in {"me", "logout"}) =>
          LET b == call'[c].bearer
              Rejected(k) == call'[c].pc = "done" /\ call'[c].status = 401
                                /\ call'[c].code = k /\ call'[c].ctxUser = 0
              Good == b.sig = "good" /\ b.type = "access" /\ TokenExp(b) > now
          IN  /\ b = NoToken => Rejected("AUTH_TOKEN_REQUIRED")
              /\ (b # NoToken /\ (b.sig # "good" \/ b.type # "access"))
                    => Rejected("AUTH_TOKEN_INVALID")
              /\ (Good /\ ~(\E u \in users : u.id = b.sub)) => Rejected("AUTH_USER_NOT_FOUND")
              /\ call'[c].ctxUser # 0
                    => Good /\ (\E u \in users : u.id = b.sub) /\ call'[c].ctxUser = b.sub]_vars

\* a correctly signed refresh token was refused as a bearer credential, and
\* another request was given its identity
C6_Witness ==
    \E c \in Slots, d \in Slots :
        /\ call[c].op \in {"me", "logout"} /\ call[c].code = "AUTH_TOKEN_INVALID"
        /\ call[c].bearer.type = "refresh" /\ call[c].bearer.sig = "good"
        /\ call[c].ctxUser = 0
        /\ call[d].op \in {"me", "logout"} /\ call[d].ctxUser # 0
        /\ call[d].ctxUser = call[d].bearer.sub

\* C7: a logout that passed authentication always answers {loggedOut: true},
\* also when the given refresh token was revoked before; after it the token's
\* record is revoked, and no step turns a revoked record into an unrevoked one.
C7_LogoutIdempotent ==
    [][/\ \A c \in Slots :
            LogoutRevokes(c) =>
              /\ call'[c].status = 200 /\ call'[c].code = "loggedOut"
              /\ (~call[c].allDevices /\ call[c].tok # NoToken) =>
                    \A r \in ledger' : r.token = call[c].tok => r.revokedAt # NoDate
       /\ \A r \in ledger, r2 \in ledger' :
            (r.token = r2.token /\ r.revokedAt # NoDate) => r2.revokedAt # NoDate]_vars

\* two logout calls with the same refresh token have both been answered with
\* success, and the token's record is revoked
C7_Witness ==
    \E c \in Slots, d \in Slots :
        /\ c # d /\ Done(c, "logout") /\ Done(d, "logout")
        /\ call[c].status = 200 /\ call[d].status = 200
        /\ ~call[c].allDevices /\ ~call[d].allDevices
        /\ call[c].tok # NoToken /\ call[c].tok = call[d].tok
        /\ \E r \in ledger : r.token = call[c].tok /\ r.revokedAt # NoDate

\* C8: logout with allDevices revokes every unrevoked record of the caller
\* and changes no record of another user; logout without allDevices revokes
\* the record of the given refresh token and changes no other record.
C8_LogoutFrame ==
    [][\A c \in Slots :
        LogoutRevokes(c) =>
          /\ {r.token : r \in ledger'} = {r.token : r \in ledger}
          /\ call[c].allDevices =>
                \A r \in ledger :
                    IF r.userId = call[c].ctxUser /\ r.revokedAt = NoDate
                    THEN [r EXCEPT !.revokedAt = now] \in ledger'
                    ELSE r \in ledger'
          /\ ~call[c].allDevices =>
                \A r \in ledger :
                    IF r.token = call[c].tok /\ call[c].tok # NoToken
                    THEN \E r2 \in ledger' :
                            /\ r2.token = r.token /\ r2.revokedAt # NoDate
                            /\ r2.userId = r.userId /\ r2.expiresAt = r.expiresAt
                    ELSE r \in ledger']_vars

\* an allDevices logout has revoked the caller's record while another user's
\* record is still unrevoked
C8_Witness ==
    \E c \in Slots :
        /\ Done(c, "logout") /\ call[c].allDevices /\ call[c].status = 200
        /\ \E r \in ledger : r.userId = call[c].ctxUser /\ r.revokedAt = now
        /\ \E r \in ledger : r.userId # call[c].ctxUser /\ r.revokedAt = NoDate

\* C9: no record of the ledger holds an access token; a step that changes
\* only the ledger changes the outcome of requireAuth for no issued access
\* token; and an issued, unexpired access token of an existing user is
\* accepted in every reachable state.
C9_AccessTokensOutsideLedger ==
    /\ [](\A r \in ledger : r.token.type = "refresh")
    /\ [][(ledger' # ledger /\ users' = users /\ now' = now) =>
            \A a \in issued : a.type = "access" => requireAuth(a)' = requireAuth(a)]_vars
    /\ [](\A a \in issued :
            (a.type = "access" /\ TokenExp(a) > now /\ (\E u \in users : u.id = a.sub))
                => requireAuth(a) = [code |-> "", user |-> a.sub])

\* a request was authenticated although every ledger record of its user is
\* revoked
C9_Witness ==
    \E c \in Slots :
        /\ Done(c, "me") /\ call[c].status = 200
        /\ requireAuth(call[c].bearer).code = ""
        /\ \E r \in ledger : r.userId = call[c].ctxUser /\ r.revokedAt # NoDate
        /\ ~(\E r \in ledger : r.userId = call[c].ctxUser /\ r.revokedAt = NoDate)

\* C11: at most one user exists per normalized email, and every answered
\* register call with a well-formed email and a policy-conforming password
\* that did not create its user failed with 409 EMAIL_EXISTS and carries no
\* token pair.
C11_RegisterOncePerEmail ==
    /\ \A u \in users, v \in users : u.email = v.email => u = v
    /\ \A c \in Slots :
         (/\ Done(c, "register")
          /\ isValidEmail(Trim(call[c].email))
          /\ isValidPassword(call[c].password) = "valid"
          /\ call[c].userId = 0)
            => /\ call[c].status = 409 /\ call[c].code = "AUTH_EMAIL_EXISTS"
               /\ call[c].accessToken = NoToken /\ call[c].refreshToken = NoToken

(***************************************************************************)
(* Properties of the rate limiter.                                         *)
(***************************************************************************)
\* the last request was evaluated by the counters and is the nth request of
\* a window that began with a fresh start
Counted == resp.outcome \in {"proceed", "delayed", "limit"} /\ resp.nth >= 1

\* C12: counted from the request that began a fresh window, the nth request
\* inside the window of a key is admitted when n is at most its limit L,
\* showing X-RateLimit-Remaining L - n and the X-RateLimit-Reset of the
\* window's first request, and is rejected with 429 when n exceeds L.
C12_WindowCountdown ==
    Counted =>
        /\ resp.nth <= resp.limit =>
              /\ resp.status # 429
              /\ resp.hRemaining = resp.limit - resp.nth
              /\ resp.hReset = tally[resp.key].hReset
        /\ resp.nth > resp.limit => resp.status = 429

\* the sixth request of a window was sent to the endpoint with limit 5 and
\* was rejected
C12_Witness ==
    /\ Counted /\ resp.limit = 5 /\ resp.nth = 6 /\ resp.status = 429
    /\ rateLimitStore[resp.key].count = 6

\* C13: every 429 answer of the limiter, for a limit breach or for the
\* blacklist, carries a Retry-After header and a retryAfter value of at
\* least one whole second.
C13_RetryAfterPositive ==
    resp.status = 429 => resp.hRetryAfter >= 1 /\ resp.retryAfter >= 1

\* C14: a rejection that brings a key's violationCount to the blacklist
\* threshold leaves a blacklist entry for the IP that blocks for the whole
\* cool-down; a request of that IP arriving before blockedUntil, of any
\* operation class, is rejected with 429 without being counted; and the
\* first request arriving at or after blockedUntil is counted as the first
\* request of a fresh window and admitted.
C14_BlacklistEscalation ==
    /\ (resp.outcome = "limit" /\ resp.violations >= CONFIG.blacklistThreshold)
          => /\ Has(blacklistStore, resp.ip)
             /\ blacklistStore[resp.ip].blockedUntil = resp.at + CONFIG.blacklistDuration
    /\ (resp.outcome # "none" /\ resp.at < resp.ban)
          => resp.outcome = "blacklist" /\ resp.status = 429 /\ resp.count = 0
    /\ (resp.prev = "blacklist" /\ resp.at >= resp.ban)
          => /\ resp.outcome = "proceed" /\ resp.status # 429
             /\ resp.count = 1 /\ resp.nth = 1
             /\ resp.hRemaining = resp.limit - 1

\* a request of a blacklisted client was rejected by the blacklist, and the
\* client's next request, arriving when blockedUntil had passed, was admitted
C14_Witness ==
    /\ resp.prev = "blacklist" /\ resp.at >= resp.ban /\ resp.ban > 0
    /\ resp.outcome = "proceed" /\ resp.count = 1

\* a request arrives at the limiter
Arrives == handled' = handled + 1

\* C15: a request of an IP whose blacklist entry has now < blockedUntil is
\* rejected with RATE_LIMITED and a retryAfter, and handling it leaves the
\* whole counter store as it was.
C15_BlacklistedLeavesCounters ==
    [][(Arrives /\ resp'.at < resp'.ban) =>
          /\ resp'.outcome = "blacklist" /\ resp'.status = 429
          /\ resp'.retryAfter >= 1
          /\ rateLimitStore' = rateLimitStore]_vars

\* the last request arrived more than one window length after the window of
\* its key began
AfterWindow == resp.since > 0 /\ resp.at - resp.since > resp.window

C17_ViolationDecay ==
    (resp.outcome \in {"proceed", "delayed", "limit"} /\ resp.violations0 > 0) =>
        LET own == IF resp.outcome = "limit" THEN 1 ELSE 0
        IN  /\ Has(rateLimitStore, resp.key)
            /\ resp.at - resp.lastViolation0 >= CONFIG.windowMs * 2
                  => rateLimitStore[resp.key].violations = resp.violations0 - 1 + own
            /\ resp.at - resp.lastViolation0 < CONFIG.windowMs * 2
                  => rateLimitStore[resp.key].violations = resp.violations0 + own

\* C18: every answer of the limiter to a request under the API prefix,
\* admitted, rejected for the limit or rejected by the blacklist, carries
\* X-RateLimit-Limit, X-RateLimit-Remaining and X-RateLimit-Reset.
C18_HeadersAlways ==
    resp.outcome \in {"proceed", "delayed", "limit", "blacklist"} =>
        /\ resp.hLimit # NoHeader
        /\ resp.hRemaining # NoHeader
        /\ resp.hReset # NoHeader

\* C19: the limiter ends a request only with a 429 for an exceeded limit or
\* for an active blacklist entry; when the limiter itself fails, the request
\* goes on to the next stage.
C19_FailOpen ==
    resp.status # 0 => resp.status = 429 /\ resp.outcome \in {"limit", "blacklist"}

\* the window that the history of key k follows is still running
Running(k) == tally[k].nth > 0 /\ msNow - tally[k].start < CONFIG.windowMs

\* C20: while a window runs, the stored count of a key is the number of
\* requests counted on it in that window, whatever the order in which
\* requests and the timers of delayed requests were served, and of N such
\* requests held to one limit exactly max(0, N - limit) were answered 429.
C20_NoUndercount ==
    \A k \in DOMAIN tally :
        Running(k) =>
            /\ Has(rateLimitStore, k)
            /\ rateLimitStore[k].count = tally[k].nth
            /\ tally[k].limit > 0
                  => tally[k].refused = Max(0, tally[k].nth - tally[k].limit)

\* a request is refused for the limit while an earlier request of its key,
\* of the same window, is held in the progressive delay
C20_Witness ==
    /\ resp.outcome = "limit"
    /\ Has(tally, resp.key) /\ Running(resp.key)
    /\ tally[resp.key].limit > 0
    /\ tally[resp.key].refused >= 1
    /\ \E s \in sleeping :
          /\ s.key = resp.key
          /\ s.wakeAt > msNow
          /\ s.count < rateLimitStore[resp.key].count

\* C21: the rotation is all-or-nothing on the ledger: a refresh call that
\* ends in an error has not revoked a presented token that was still
\* redeemable (a failure at any step, the storing of the new token included,
\* leaves the presented token valid), and a refresh call that succeeds has
\* revoked the presented token and persisted the new one.
C21_RotationAllOrNothing ==
    \A c \in Slots :
        Done(c, "refresh") =>
            /\ call[c].status # 200 => ~call[c].gate
            /\ call[c].status = 200 =>
                  \E i \in DOMAIN rotations :
                      rotations[i] = [old |-> call[c].tok, new |-> call[c].refreshToken]

\* a counted request arrives that is the first to its endpoint in the running
\* window of its key: every request counted there before it was held to one
\* other limit, and the endpoints of the requests differ in their limits
FirstOfEndpoint ==
    /\ Arrives
    /\ resp'.outcome \in {"proceed", "delayed", "limit"}
    /\ Has(tally, resp'.key)
    /\ tally[resp'.key].nth > 0
    /\ tally'[resp'.key].start = tally[resp'.key].start
    /\ tally[resp'.key].limit > 0
    /\ tally[resp'.key].limit # resp'.limit

\* C22: the counter of a request is that of its IP and endpoint when an
\* override applies, and of its IP and operation class otherwise: requests to
\* other endpoints consume nothing of an endpoint's budget, so the first
\* request to an endpoint in a window is admitted with the whole budget of
\* that endpoint but one.
C22_EndpointBudget ==
    [][FirstOfEndpoint =>
          /\ resp'.status # 429
          /\ resp'.hRemaining = resp'.limit - 1]_vars

\* the blacklist entry of the client was written by the last request
Banned ==
    /\ Has(blacklistStore, resp.ip)
    /\ blacklistStore[resp.ip].blockedUntil = resp.at + CONFIG.blacklistDuration

\* the violations the key of the last request had on arrival, less the one
\* step of decay that is due when its last violation is more than two
\* default windows old
Decayed0 ==
    IF resp.violations0 > 0 /\ resp.at - resp.lastViolation0 > CONFIG.windowMs * 2
    THEN resp.violations0 - 1
    ELSE resp.violations0

\* C23: a request whose count exceeds its limit adds exactly one to the
\* violations of its key (as they stand after the decay step of the
\* request, when one is due), stamps lastViolation with its arrival time and
\* is rejected with the seconds left until the window resets as retryAfter;
\* it writes a blacklist entry ending at now + cool-down exactly when the
\* violations are then at or above the threshold, and an admitted request
\* writes none.
C23_BreachAccounting ==
    /\ resp.outcome = "limit" =>
          /\ resp.count > resp.limit
          /\ resp.status = 429
          /\ rateLimitStore[resp.key].violations = Decayed0 + 1
          /\ resp.violations = Decayed0 + 1
          /\ rateLimitStore[resp.key].lastViolation = resp.at
          /\ resp.retryAfter =
                CeilSeconds(rateLimitStore[resp.key].windowStart + resp.window - resp.at)
          /\ Banned <=> resp.violations >= CONFIG.blacklistThreshold
    /\ resp.outcome \in {"proceed", "delayed"} =>
          /\ resp.count <= resp.limit
          /\ ~Banned
          /\ rateLimitStore[resp.key].violations <= resp.violations0

\* the fifth violation of a key in a row: the entry is stamped and the
\* client blacklisted
C23_Witness ==
    /\ resp.outcome = "limit"
    /\ resp.violations0 = CONFIG.blacklistThreshold - 1
    /\ rateLimitStore[resp.key].lastViolation = resp.at
    /\ resp.lastViolation0 < resp.at
    /\ Banned

\* the timer of a delayed request has fired in this step
Woken == sleeping' # sleeping /\ sleeping' \subseteq sleeping

\* the request that arrives is held in the progressive delay for its delay
Held == \E s \in sleeping' : s.id = handled /\ s.wakeAt = resp'.at + resp'.delay

\* C24: a request is delayed exactly when it is admitted with a count above
\* 80% of its limit on a key with violations; the delay is the violations
\* times the progressive step, at most the maximum delay; when the delay has
\* passed the request proceeds, and neither the counter store nor the
\* blacklist store changes by it.
C24_ProgressiveDelay ==
    [][/\ (Arrives /\ resp'.outcome # "skip") =>
             /\ resp'.outcome = "delayed" <=>
                   /\ resp'.status = 0
                   /\ resp'.count * 10 > resp'.limit * 8
                   /\ resp'.violations > 0
             /\ resp'.outcome = "delayed" =>
                   /\ resp'.delay = Min(resp'.violations * CONFIG.progressiveDelayMs,
                                        CONFIG.maxDelayMs)
                   /\ resp'.delay > 0 /\ resp'.delay <= CONFIG.maxDelayMs
                   /\ Held
             /\ resp'.outcome # "delayed" => resp'.delay = 0 /\ sleeping' = sleeping
       /\ Woken =>
             /\ rateLimitStore' = rateLimitStore
             /\ blacklistStore' = blacklistStore
             /\ resp' = resp
             /\ \A s \in sleeping \ sleeping' : msNow' >= s.wakeAt]_vars

\* a request was delayed, its timer has fired, and it is the last answer of
\* the limiter: admitted, not rejected
C24_Witness ==
    /\ resp.outcome = "delayed"
    /\ resp.status = 0
    /\ resp.delay = resp.violations * CONFIG.progressiveDelayMs
    /\ sleeping = {}
    /\ msNow = resp.at + resp.delay

\* C25: the pruning pass commutes with the handling of a request: in every
\* reachable state, and for every request, the decision, the delay and the
\* count and violations left for the key of the request are the same
\* whether the stores are pruned first or not.
C25_PruningCommutes ==
    \A r \in Requests :
        Verdict(cleanupRateLimitStore(rateLimitStore, msNow),
                cleanupBlacklistStore(blacklistStore, msNow), r, msNow)
            = Verdict(rateLimitStore, blacklistStore, r, msNow)

\* a step of the ledger sweep: records leave the ledger, the users stay
Swept == ledger' # ledger /\ ledger' \subseteq ledger /\ users' = users

Due ==
    \/ Cardinality(DOMAIN rateLimitStore) > CONFIG.maxEntries
    \/ msNow - lastCleanup > CONFIG.cleanupInterval

\* C27: a pruning pass runs at the start of a request exactly when the
\* counter store holds more entries than the size threshold or more than
\* the cleanup interval has passed since the last pass; what it removes are
\* only counters whose window began more than two default windows ago and
\* blacklist entries whose blockedUntil has passed: never a counter whose
\* window is open, never a blacklist entry that still blocks.
C27_PruningPass ==
    [][(Arrives /\ resp'.outcome # "skip") =>
          /\ resp'.pruned <=> Due
          /\ lastCleanup' = IF Due THEN msNow ELSE lastCleanup
          /\ ~Due => /\ DOMAIN rateLimitStore \subseteq DOMAIN rateLimitStore'
                     /\ DOMAIN blacklistStore \subseteq DOMAIN blacklistStore'
          /\ \A k \in DOMAIN rateLimitStore \ DOMAIN rateLimitStore' :
                msNow - rateLimitStore[k].windowStart > CONFIG.windowMs * 2
          /\ \A ip \in DOMAIN blacklistStore \ DOMAIN blacklistStore' :
                msNow > blacklistStore[ip].blockedUntil
          /\ \A k \in DOMAIN rateLimitStore :
                msNow - rateLimitStore[k].windowStart <= CONFIG.windowMs
                    => /\ k \in DOMAIN rateLimitStore'
                       /\ rateLimitStore'[k].windowStart = rateLimitStore[k].windowStart
          /\ \A ip \in DOMAIN blacklistStore :
                msNow < blacklistStore[ip].blockedUntil
                    => /\ ip \in DOMAIN blacklistStore'
                       /\ blacklistStore'[ip] = blacklistStore[ip]]_vars

\* a pass has run with the last request and has removed the stale counter of
\* another key and the expired blacklist entry of the client
C27_Witness ==
    /\ resp.pruned
    /\ \E k \in DOMAIN tally : k # resp.key /\ ~Has(rateLimitStore, k)
    /\ resp.ban > 0 /\ resp.at > resp.ban
    /\ ~Has(blacklistStore, resp.ip)

\* C28: the start of a key's window changes, or its counter goes, only with
\* a request that arrives more than one window after that start; a request
\* rejected by the blacklist leaves blockedUntil as it is; and a client that
\* was silent for the cool-down of the blacklist and one window is admitted
\* with its next request, whatever came before.
C28_NoPenaltyExtension ==
    [][/\ \A k \in DOMAIN rateLimitStore :
             (~Has(rateLimitStore', k)
                 \/ rateLimitStore'[k].windowStart # rateLimitStore[k].windowStart)
                => /\ Arrives
                   /\ msNow - rateLimitStore[k].windowStart > CONFIG.windowMs
       /\ (Arrives /\ resp'.outcome = "blacklist") =>
             /\ Has(blacklistStore, resp'.ip) /\ Has(blacklistStore', resp'.ip)
             /\ blacklistStore'[resp'.ip].blockedUntil = blacklistStore[resp'.ip].blockedUntil
       /\ (Arrives /\ resp.outcome # "none" /\ resp'.ip = resp.ip
              /\ resp'.at - resp.at >= CONFIG.blacklistDuration + CONFIG.windowMs)
             => resp'.status = 0 /\ resp'.outcome = "proceed"]_vars

\* a client that was blacklisted is admitted with the first request it sends
\* after the cool-down and one window
C28_Witness ==
    /\ resp.ban > 0
    /\ resp.prev \in {"limit", "blacklist"}
    /\ resp.at >= resp.ban + CONFIG.windowMs
    /\ resp.outcome = "proceed" /\ resp.status = 0
    /\ resp.count = 1

\* C29: a logout revokes only records of the authenticated caller: every
\* ledger record that the revoking step of a logout call changes has the
\* userId of the user the bearer token of the call authenticated, whatever
\* refresh token the body carries.
C29_LogoutOwnRecordsOnly ==
    [][\A c \in Slots :
          (call[c].op = "logout" /\ call[c].pc = "revoke" /\ call'[c].pc = "done")
             => \A r \in ledger' \ ledger : r.userId = call[c].ctxUser]_vars

\* C30: once logout() has completed, the access token, the refresh token and
\* the user are gone from memory and from localStorage and no refresh timer
\* is pending, and so it stays until the next login or register, also when
\* the reply to a refresh sent before the logout arrives after it.
C30_LoggedOutStaysCleared ==
    loggedOut =>
        /\ client.user = Null
        /\ client.accessToken = Null
        /\ client.refreshToken = Null
        /\ localStorage = NoItems
        /\ client.refreshTimer # "pending"

=============================================================================
